---- MODULE Spec2Model ----
(***************************************************************************)
(* A model of dynomite's spectral-representation engine:                   *)
(*   src/dynomite/core/time.py             TimeSeries, FourierTransform,   *)
(*                                         PowerSpectralDensity,           *)
(*                                         VibrationResponseSpectra and    *)
(*                                         the sided-conversion functions  *)
(*   src/dynamight/core/fourier_transform.py   the split-out               *)
(*                                         FourierTransform                *)
(*                                                                         *)
(* numpy floats are modelled as exact rationals <<num, den>> (den > 0, in  *)
(* lowest terms).  A value that is not a finite rational (an irrational    *)
(* square root, a value that depends on the random phase, inf, nan) is the *)
(* token NaR == <<0, 0>>.  Complex numbers are pairs <<a, b>> of rationals *)
(* standing for a + b*zeta, zeta == exp(2*pi*i/N), N the transform length. *)
(***************************************************************************)
EXTENDS Integers, Sequences, FiniteSets, TLC

(***************************************************************************)
(* Bounds of the model                                                     *)
(***************************************************************************)
\* largest number of bins / rows of a constructed array
MaxN == 4
\* largest number of calls made on an entity after its construction
MaxOps == 3

\* sample values of the input arrays
Vals == {1, 2}
\* grid steps (df or dt) of the input arrays
Steps == {1, 2}
\* lengths of the time series (the orders at which the DFT is exact here)
SampleCounts == {1, 2, 3, 4}
\* the quality factors Q and the natural frequencies fn passed to the
\* response-spectrum methods
Qs == {1, 2}
Fns == {1, 2}
\* square roots are exact for the squares of 0..SqrtMax
SqrtMax == 40

(***************************************************************************)
(* Exact rational arithmetic                                               *)
(***************************************************************************)
\* F(v), with v evaluated once
With(v, F(_)) == CHOOSE y \in {F(u) : u \in {v}} : TRUE

NaR == <<0, 0>>

IsNaR(x) == x[2] = 0

Abs(i) == IF i < 0 THEN -i ELSE i

RECURSIVE GCD(_, _)
GCD(a, b) == IF b = 0 THEN a ELSE GCD(b, a % b)

\* the rational n/d in lowest terms with a positive denominator; x/0 is NaR
Rat(n, d) ==
    IF d = 0 THEN NaR
    ELSE LET g == GCD(Abs(n), Abs(d))
             s == IF d < 0 THEN -1 ELSE 1
         IN  <<(s * n) \div g, (s * d) \div g>>

R(i) == <<i, 1>>

\* numerators and denominators are exact up to MaxInt; an operation on a
\* larger operand is not computed (NaR)
MaxInt == 30000

Exact(x) == ~IsNaR(x) /\ Abs(x[1]) <= MaxInt /\ x[2] <= MaxInt

\* sums and products are formed over the least common denominator and after
\* cancelling common factors, which keeps the intermediate integers small
RAdd(x, y) == IF ~Exact(x) \/ ~Exact(y) THEN NaR
              ELSE LET g == GCD(x[2], y[2])
                   IN  Rat(x[1] * (y[2] \div g) + y[1] * (x[2] \div g), (x[2] \div g) * y[2])

RSub(x, y) == IF IsNaR(x) \/ IsNaR(y) THEN NaR
              ELSE RAdd(x, <<-y[1], y[2]>>)

RMul(x, y) == IF ~Exact(x) \/ ~Exact(y) THEN NaR
              ELSE LET g1 == GCD(Abs(x[1]), y[2])
                       g2 == GCD(Abs(y[1]), x[2])
                   IN  Rat((x[1] \div g1) * (y[1] \div g2), (x[2] \div g2) * (y[2] \div g1))

RDiv(x, y) == IF IsNaR(x) \/ IsNaR(y) \/ y[1] = 0 THEN NaR
              ELSE RMul(x, Rat(y[2], y[1]))

RLess(x, y) == x[1] * y[2] < y[1] * x[2]

\* int(x) of a rational x >= 0: truncation
RInt(x) == x[1] \div x[2]

\* np.ceil of a rational, as an integer
RCeil(x) == IF x[1] % x[2] = 0 THEN x[1] \div x[2] ELSE (x[1] \div x[2]) + 1

\* np.sqrt: exact on a quotient of two squares, otherwise not a rational
RSqrt(x) ==
    IF IsNaR(x) \/ x[1] < 0 THEN NaR
    ELSE IF (\E a \in 0..SqrtMax : a * a = x[1]) /\ (\E b \in 1..SqrtMax : b * b = x[2])
    THEN <<CHOOSE a \in 0..SqrtMax : a * a = x[1], CHOOSE b \in 1..SqrtMax : b * b = x[2]>>
    ELSE NaR

RECURSIVE RSum(_)
RSum(s) == IF s = <<>> THEN R(0) ELSE RAdd(Head(s), RSum(Tail(s)))

(***************************************************************************)
(* numpy array helpers                                                     *)
(***************************************************************************)
\* a[:k]
Take(a, k) == SubSeq(a, 1, IF k < Len(a) THEN k ELSE Len(a))

\* np.flipud(a)
Flipud(a) == [i \in 1..Len(a) |-> a[Len(a) + 1 - i]]

\* c * a, a /= c (element-wise)
Scale(a, c) == [i \in 1..Len(a) |-> RMul(a[i], c)]

\* np.arange(0, n) * step
Arange(n, step) == [i \in 1..n |-> RMul(R(i - 1), step)]

\* a with a[i] replaced by v
Put(a, i, v) == [a EXCEPT ![i] = v]

(***************************************************************************)
(* Complex numbers a + b*zeta, zeta == exp(2*pi*i/N): the values of        *)
(* sp.fft.fft / sp.fft.ifft of length N.  1 and zeta are a basis of the    *)
(* N-th cyclotomic field for N in {3, 4, 6}; for N in {1, 2} zeta is +-1   *)
(* and b is kept 0.  For any other N the values are not modelled (NaR).    *)
(***************************************************************************)
CNaR == <<NaR, NaR>>

C(x) == <<x, R(0)>>

CAdd(z, w) == <<RAdd(z[1], w[1]), RAdd(z[2], w[2])>>

CScale(z, x) == <<RMul(z[1], x), RMul(z[2], x)>>

\* z * zeta
MulZeta(z, N) ==
    CASE N = 1 -> <<RAdd(z[1], z[2]), R(0)>>
      [] N = 2 -> <<RSub(z[2], z[1]), R(0)>>
      [] N = 3 -> <<RSub(R(0), z[2]), RSub(z[1], z[2])>>
      [] N = 4 -> <<RSub(R(0), z[2]), z[1]>>
      [] N = 6 -> <<RSub(R(0), z[2]), RAdd(z[1], z[2])>>
      [] OTHER -> CNaR

\* z * zeta^m, m >= 0
RECURSIVE MulZetaPow(_, _, _)
MulZetaPow(z, m, N) == IF m = 0 THEN z ELSE MulZetaPow(MulZeta(z, N), m - 1, N)

\* z.real
Real(z, N) ==
    CASE N = 1 -> RAdd(z[1], z[2])
      [] N = 2 -> RSub(z[1], z[2])
      [] N = 3 -> RSub(z[1], RDiv(z[2], R(2)))
      [] N = 4 -> z[1]
      [] N = 6 -> RAdd(z[1], RDiv(z[2], R(2)))
      [] OTHER -> NaR

\* c * a for a complex array a and a rational c
Scale2(a, c) == [i \in 1..Len(a) |-> CScale(a[i], c)]

RECURSIVE CSum(_)
CSum(s) == IF s = <<>> THEN C(R(0)) ELSE CAdd(Head(s), CSum(Tail(s)))

\* sp.fft.fft(x): X[k] = sum_j x[j] * zeta^(-j*k), x complex, 0-based j and k
fft(x) ==
    With(Len(x), LAMBDA N :
        [k \in 1..N |->
            CSum([j \in 1..N |->
                    MulZetaPow(x[j], (N - (((j - 1) * (k - 1)) % N)) % N, N)])])

\* sp.fft.ifft(X): x[j] = (1/N) * sum_k X[k] * zeta^(j*k)
ifft(X) ==
    With(Len(X), LAMBDA N :
        [j \in 1..N |->
            CScale(CSum([k \in 1..N |->
                           MulZetaPow(X[k], ((j - 1) * (k - 1)) % N, N)]),
                   Rat(1, N))])

(***************************************************************************)
(* numpy arrays and the entities                                           *)
(*                                                                         *)
(* An ndarray is its column-0 data (one value per row), its number of      *)
(* dimensions, its number of columns (when 2-D) and its dtype.  An entity  *)
(* is one record for the four classes, with the fields of the source.      *)
(***************************************************************************)
NdArray(data, ndim, ncols, dtype) ==
    [data |-> data, ndim |-> ndim, ncols |-> ncols, dtype |-> dtype]

\* a 1-D float array
Array1(data) == NdArray(data, 1, 0, "float64")

\* an [n x 1] float array
Column(data) == NdArray(data, 2, 1, "float64")

NoArray == NdArray(<<>>, 0, 0, "")

\* a.reshape(len(a), 1)
Reshape(a) == [a EXCEPT !.ndim = 2, !.ncols = 1]

\* a.shape[0]
Rows(a) == Len(a.data)

None ==
    [kind |-> "None", time |-> <<>>, frequency |-> <<>>, response |-> NoArray,
     fft_type |-> "", sided |-> 0, is_onesided_center |-> FALSE,
     octave_spacing |-> 0]

\* the value a call returns when it returns a float
Float(x) == [None EXCEPT !.kind = "float", !.response = Array1(<<x>>)]

\* the result of a call: the error it raised ("" when none), the receiver
\* after the call, the object returned and whether that object is the
\* receiver itself
Result(e, s, o, a) == [err |-> e, self |-> s, out |-> o, alias |-> a]

Raise(e, s) == Result(e, s, None, FALSE)

\* the result of a call that returns a new entity o constructed on the
\* receiver's own frequency array (the constructors store the array they
\* are given)
ResultSharing(s, o) ==
    [err |-> "", self |-> s, out |-> o, alias |-> FALSE, shares |-> TRUE]

\* is_onesided_center as a constructor argument: "True", "False" or "None"
Tri(b) == IF b THEN "True" ELSE "False"

(***************************************************************************)
(* Constructors                                                            *)
(***************************************************************************)
\* TimeSeries.__init__
TimeSeriesInit(time, time_response) ==
    LET response == IF time_response.ndim = 1 THEN Reshape(time_response)
                    ELSE time_response
    IN  IF response.dtype = "complex128" THEN Raise("TypeError", None)
        ELSE Result("", None,
                    [None EXCEPT !.kind = "TimeSeries", !.time = time,
                                 !.response = response], FALSE)

\* dynamight.core.time.TimeSeries.__init__, which is not in the sources: the
\* time-domain entity of the specification, whose construction validates
\* dtype and shape (response.rows == len(time))
DyTimeSeriesInit(time, time_response) ==
    LET response == IF time_response.ndim = 1 THEN Reshape(time_response)
                    ELSE time_response
    IN  IF response.dtype = "complex128" THEN Raise("TypeError", None)
        ELSE IF Rows(response) # Len(time) THEN Raise("AssertionError", None)
        ELSE Result("", None,
                    [None EXCEPT !.kind = "dynamight.TimeSeries", !.time = time,
                                 !.response = response], FALSE)

\* FourierTransform.__init__ of dynomite/core/time.py
FourierTransformInit(frequency, fft_response, fft_type, sided, is_onesided_center) ==
    LET response == IF fft_response.ndim = 1 THEN Reshape(fft_response)
                    ELSE fft_response
    IN  IF is_onesided_center = "None" THEN Raise("AssertionError", None)
        ELSE IF fft_type \notin {"real_imag", "mag_phase"}
        THEN Raise("AssertionError", None)
        ELSE Result("", None,
                    [None EXCEPT !.kind = "FourierTransform",
                                 !.frequency = frequency, !.response = response,
                                 !.fft_type = fft_type, !.sided = sided,
                                 !.is_onesided_center = (is_onesided_center = "True")],
                    FALSE)

\* FourierTransform.__init__ of dynamight/core/fourier_transform.py
DyFourierTransformInit(frequency, fft_response, fft_type, sided, is_onesided_center) ==
    LET response == IF fft_response.ndim = 1 THEN Reshape(fft_response)
                    ELSE fft_response
    IN  IF is_onesided_center = "None" THEN Raise("AssertionError", None)
        ELSE IF fft_type \notin {"real_imag", "mag_phase"}
        THEN Raise("AssertionError", None)
        ELSE IF response.ndim # 2 THEN Raise("AssertionError", None)
        ELSE IF Rows(response) # Len(frequency) THEN Raise("AssertionError", None)
        ELSE Result("", None,
                    [None EXCEPT !.kind = "dynamight.FourierTransform",
                                 !.frequency = frequency, !.response = response,
                                 !.fft_type = fft_type, !.sided = sided,
                                 !.is_onesided_center = (is_onesided_center = "True")],
                    FALSE)

\* PowerSpectralDensity.__init__ without its octave_spacing assertion
PowerSpectralDensityInit_AnyOctave(cls, frequency, psd_response, sided, is_onesided_center, octave_spacing) ==
    LET response == IF psd_response.ndim = 1 THEN Reshape(psd_response)
                    ELSE psd_response
    IN  IF response.dtype = "complex128" THEN Raise("TypeError", None)
        ELSE IF response.ncols # 1 THEN Raise("AssertionError", None)
        ELSE IF response.ndim # 2 THEN Raise("AssertionError", None)
        ELSE IF is_onesided_center = "None" THEN Raise("AssertionError", None)
        ELSE IF sided \notin {1, 2} THEN Raise("AssertionError", None)
        ELSE Result("", None,
                    [None EXCEPT !.kind = cls,
                                 !.frequency = frequency, !.response = response,
                                 !.sided = sided,
                                 !.is_onesided_center = (is_onesided_center = "True"),
                                 !.octave_spacing = octave_spacing],
                    FALSE)

\* PowerSpectralDensity.__init__, inherited by VibrationResponseSpectra;
\* cls is the class constructed
PowerSpectralDensityInit(cls, frequency, psd_response, sided, is_onesided_center, octave_spacing) ==
    LET response == IF psd_response.ndim = 1 THEN Reshape(psd_response)
                    ELSE psd_response
    IN  IF response.dtype = "complex128" THEN Raise("TypeError", None)
        ELSE IF response.ncols # 1 THEN Raise("AssertionError", None)
        ELSE IF response.ndim # 2 THEN Raise("AssertionError", None)
        ELSE IF is_onesided_center = "None" THEN Raise("AssertionError", None)
        ELSE IF sided \notin {1, 2} THEN Raise("AssertionError", None)
        ELSE IF ~(octave_spacing >= 0) THEN Raise("AssertionError", None)
        ELSE Result("", None,
                    [None EXCEPT !.kind = cls,
                                 !.frequency = frequency, !.response = response,
                                 !.sided = sided,
                                 !.is_onesided_center = (is_onesided_center = "True"),
                                 !.octave_spacing = octave_spacing],
                    FALSE)

(***************************************************************************)
(* Sided-conversion functions.  Each returns the error it raised ("" when  *)
(* none) with its results.                                                 *)
(***************************************************************************)
\* psd_to_onesided(frequency, response)
psd_to_onesided(frequency, response) ==
    LET nfreq == Len(frequency)
        is_onesided_center == (nfreq % 2 = 1)
        ifreq == IF is_onesided_center THEN (nfreq \div 2) + 1 ELSE nfreq \div 2
        \* k * response[:ifreq, :]
        r1 == Scale(Take(response.data, ifreq), R(2))
        \* response[-1, :] /= k, when nfreq is odd
        r2 == IF is_onesided_center
              THEN Put(r1, Len(r1), RDiv(r1[Len(r1)], R(2)))
              ELSE r1
        \* response[0, :] /= k
        r3 == Put(r2, 1, RDiv(r2[1], R(2)))
    IN  IF response.ndim # 2 \/ Len(r1) = 0
        THEN [err |-> "IndexError", frequency |-> <<>>, response |-> NoArray,
              is_onesided_center |-> FALSE]
        ELSE [err |-> "", frequency |-> Take(frequency, ifreq),
              response |-> [response EXCEPT !.data = r3],
              is_onesided_center |-> is_onesided_center]

\* psd_to_twosided(frequency, response, is_onesided_center, df)
psd_to_twosided(frequency, response, is_onesided_center, df) ==
    LET \* 1 / k * np.vstack([response, np.flipud(response)])
        r1 == Scale(response.data \o Flipud(response.data), Rat(1, 2))
        \* response2[0, :] *= k
        r2 == Put(r1, 1, RMul(r1[1], R(2)))
        \* response2[-1, :] *= k, when is_onesided_center
        r3 == IF is_onesided_center
              THEN Put(r2, Len(r2), RMul(r2[Len(r2)], R(2)))
              ELSE r2
        nfreq == IF is_onesided_center THEN Len(frequency) * 2 - 1
                 ELSE Len(frequency) * 2
    IN  IF response.ndim # 2
        THEN [err |-> "IndexError", frequency |-> <<>>, response |-> NoArray]
        ELSE IF response.ncols # 1
        THEN [err |-> "AssertionError", frequency |-> <<>>, response |-> NoArray]
        ELSE IF Len(r1) = 0
        THEN [err |-> "IndexError", frequency |-> <<>>, response |-> NoArray]
        ELSE [err |-> "", frequency |-> Arange(nfreq, df),
              response |-> [response EXCEPT !.data = r3]]

\* _to_twosided_fsampling adding df whether or not is_onesided_center
_to_twosided_fsampling_AlwaysDf(fmax, df, sided, is_onesided_center) ==
    IF sided = 2 THEN [err |-> "", fsampling |-> fmax]
    ELSE IF sided # 1 THEN [err |-> "AssertionError", fsampling |-> NaR]
    ELSE [err |-> "", fsampling |-> RAdd(RMul(fmax, R(2)), df)]

\* _to_twosided_fsampling(fmax, df, sided, is_onesided_center)
_to_twosided_fsampling(fmax, df, sided, is_onesided_center) ==
    IF sided = 2 THEN [err |-> "", fsampling |-> fmax]
    ELSE IF sided # 1 THEN [err |-> "AssertionError", fsampling |-> NaR]
    ELSE IF is_onesided_center
    THEN [err |-> "", fsampling |-> RMul(fmax, R(2))]
    ELSE [err |-> "", fsampling |-> RAdd(RMul(fmax, R(2)), df)]

\* _response_squeeze(response): the rows of a one-column array
_response_squeeze(response) == response.data

\* _onesided_frequency dropping the last bin
_onesided_frequency_Short(dt, tmax, ntimes) == Arange(ntimes - 1, RDiv(R(1), tmax))

\* _onesided_frequency(dt, tmax, ntimes)
_onesided_frequency(dt, tmax, ntimes) == Arange(ntimes, RDiv(R(1), tmax))

(***************************************************************************)
(* PowerSpectralDensity (and VibrationResponseSpectra, which inherits      *)
(* every method below)                                                     *)
(***************************************************************************)
\* PowerSpectralDensity.df without its test of octave_spacing
PSD_df_AnySpacing(self) ==
    IF Len(self.frequency) < 2 THEN [err |-> "IndexError", df |-> NaR]
    ELSE [err |-> "", df |-> RSub(self.frequency[2], self.frequency[1])]

\* PowerSpectralDensity.df
PSD_df(self) ==
    IF self.octave_spacing = 0
    THEN IF Len(self.frequency) < 2 THEN [err |-> "IndexError", df |-> NaR]
         ELSE [err |-> "", df |-> RSub(self.frequency[2], self.frequency[1])]
    ELSE [err |-> "RuntimeError", df |-> NaR]

\* PowerSpectralDensity.fsampling
PSD_fsampling(self) ==
    With(PSD_df(self), LAMBDA d :
        IF self.sided \notin {1, 2} THEN [err |-> "AssertionError", fsampling |-> NaR]
        ELSE IF self.octave_spacing # 0 THEN [err |-> "RuntimeError", fsampling |-> NaR]
        ELSE IF Len(self.frequency) = 0 THEN [err |-> "IndexError", fsampling |-> NaR]
        ELSE IF d.err # "" THEN [err |-> d.err, fsampling |-> NaR]
        ELSE _to_twosided_fsampling(self.frequency[Len(self.frequency)], d.df, self.sided, self.is_onesided_center))

\* the two property reads  out.fsampling; out.df  that end to_twosided: the
\* error they raise, "" when none
Revalidate(out) ==
    With(PSD_fsampling(out), LAMBDA fs :
        IF fs.err # "" THEN fs.err ELSE PSD_df(out).err)

\* PowerSpectralDensity.to_onesided(inplace) without its test of self.sided
PSD_to_onesided_Always(self, inplace) ==
    With(psd_to_onesided(self.frequency, self.response), LAMBDA r :
    With(PowerSpectralDensityInit("PowerSpectralDensity", r.frequency, r.response, 1, Tri(r.is_onesided_center), self.octave_spacing), LAMBDA new :
    With([self EXCEPT !.frequency = r.frequency, !.response = r.response, !.sided = 1, !.is_onesided_center = r.is_onesided_center], LAMBDA mutated :
        IF r.err # "" THEN Raise(r.err, self)
        ELSE IF inplace THEN Result("", mutated, mutated, TRUE)
        ELSE IF new.err # "" THEN Raise(new.err, self)
        ELSE Result("", self, new.out, FALSE))))

\* PowerSpectralDensity.to_onesided(inplace)
PSD_to_onesided(self, inplace) ==
    With(psd_to_onesided(self.frequency, self.response), LAMBDA r :
    With(PowerSpectralDensityInit("PowerSpectralDensity", r.frequency, r.response, 1, Tri(r.is_onesided_center), self.octave_spacing), LAMBDA new :
    With([self EXCEPT !.frequency = r.frequency, !.response = r.response, !.sided = 1, !.is_onesided_center = r.is_onesided_center], LAMBDA mutated :
        IF self.sided = 1 THEN Result("", self, self, TRUE)
        ELSE IF self.sided # 2 THEN Raise("AssertionError", self)
        ELSE IF r.err # "" THEN Raise(r.err, self)
        ELSE IF inplace THEN Result("", mutated, mutated, TRUE)
        ELSE IF new.err # "" THEN Raise(new.err, self)
        ELSE Result("", self, new.out, FALSE))))

\* PowerSpectralDensity.to_twosided(inplace) with self.sided = 2 assigned
\* before self.df is read
PSD_to_twosided_TagFirst(self, inplace) ==
    With(PSD_df(self), LAMBDA d :
    With(psd_to_twosided(self.frequency, self.response, self.is_onesided_center, d.df), LAMBDA r :
    With(PowerSpectralDensityInit("PowerSpectralDensity", r.frequency, r.response, 2, "False", self.octave_spacing), LAMBDA new :
    With([self EXCEPT !.frequency = r.frequency, !.response = r.response, !.sided = 2], LAMBDA mutated :
    With(Revalidate(IF self.sided = 2 THEN self ELSE IF inplace THEN mutated ELSE new.out), LAMBDA invalid :
        IF self.sided = 2
        THEN IF invalid # "" THEN Raise(invalid, self) ELSE Result("", self, self, TRUE)
        ELSE IF self.sided # 1 THEN Raise("AssertionError", self)
        ELSE IF d.err # "" THEN Raise(d.err, IF inplace THEN [self EXCEPT !.sided = 2] ELSE self)
        ELSE IF r.err # "" THEN Raise(r.err, self)
        ELSE IF inplace
        THEN IF invalid # "" THEN Raise(invalid, mutated) ELSE Result("", mutated, mutated, TRUE)
        ELSE IF new.err # "" THEN Raise(new.err, self)
        ELSE IF invalid # "" THEN Raise(invalid, self)
        ELSE Result("", self, new.out, FALSE))))))

\* PowerSpectralDensity.to_twosided(inplace)
PSD_to_twosided(self, inplace) ==
    With(PSD_df(self), LAMBDA d :
    With(psd_to_twosided(self.frequency, self.response, self.is_onesided_center, d.df), LAMBDA r :
    With(PowerSpectralDensityInit("PowerSpectralDensity", r.frequency, r.response, 2, "False", self.octave_spacing), LAMBDA new :
    With([self EXCEPT !.frequency = r.frequency, !.response = r.response, !.sided = 2], LAMBDA mutated :
    With(Revalidate(IF self.sided = 2 THEN self ELSE IF inplace THEN mutated ELSE new.out), LAMBDA invalid :
        IF self.sided = 2
        THEN IF invalid # "" THEN Raise(invalid, self) ELSE Result("", self, self, TRUE)
        ELSE IF self.sided # 1 THEN Raise("AssertionError", self)
        ELSE IF d.err # "" THEN Raise(d.err, self)
        ELSE IF r.err # "" THEN Raise(r.err, self)
        ELSE IF inplace
        THEN IF invalid # "" THEN Raise(invalid, mutated) ELSE Result("", mutated, mutated, TRUE)
        ELSE IF new.err # "" THEN Raise(new.err, self)
        ELSE IF invalid # "" THEN Raise(invalid, self)
        ELSE Result("", self, new.out, FALSE))))))

\* 2 ** np.interp(np.log2(x), np.log2(xp), np.log2(fp)) at one point x, for
\* an increasing xp >= 0 with len(xp) == len(fp) >= 1.  np.interp clamps
\* outside [xp[0], xp[-1]], returns fp[j] at a sample point xp[j] and on a
\* segment whose two ends hold the same value, and returns the right end's
\* value on a segment that starts at frequency 0 (log2 is -inf there); any
\* other interpolated value is not a rational the model computes (NaR)
LogLogInterp(x, xp, fp) ==
    LET n == Len(xp)
        j == CHOOSE i \in 1..(n - 1) : ~RLess(x, xp[i]) /\ RLess(x, xp[i + 1])
    IN  IF IsNaR(x) \/ \E i \in 1..n : IsNaR(xp[i]) THEN NaR
        ELSE IF RLess(x, xp[1]) THEN fp[1]
        ELSE IF ~RLess(x, xp[n]) THEN fp[n]
        ELSE IF x = xp[j] THEN fp[j]
        ELSE IF xp[j] = R(0) THEN fp[j + 1]
        ELSE IF fp[j] = fp[j + 1] THEN fp[j]
        ELSE NaR

\* PowerSpectralDensity.resample(frequency, inplace)
PSD_resample(self, frequency, inplace) ==
    IF self.response.ndim < 2 THEN Raise("IndexError", self)
    ELSE IF Len(self.frequency) = 0 \/ Len(self.frequency) # Rows(self.response)
    THEN Raise("ValueError", self)
    ELSE
    With(Array1([i \in 1..Len(frequency) |-> LogLogInterp(frequency[i], self.frequency, self.response.data)]), LAMBDA psd_response :
    With(PowerSpectralDensityInit("PowerSpectralDensity", frequency, psd_response, self.sided, Tri(self.is_onesided_center), self.octave_spacing), LAMBDA new :
    With([self EXCEPT !.frequency = frequency, !.response = psd_response], LAMBDA mutated :
        IF inplace THEN Result("", mutated, mutated, TRUE)
        ELSE IF new.err # "" THEN Raise(new.err, self)
        ELSE Result("", self, new.out, FALSE))))

\* PowerSpectralDensity.to_time_series().  The samples depend on the random
\* phase and on square roots: their values are NaR, their count is that of
\* the inverse transform of the squeezed response
PSD_to_time_series(self) ==
    With(IF self.sided = 1 THEN PSD_to_twosided(self, FALSE) ELSE Result("", self, self, TRUE), LAMBDA two :
    With(two.out, LAMBDA psd :
    With(PSD_fsampling(psd), LAMBDA fs :
    With(Array1([i \in 1..Rows(psd.response) |-> NaR]), LAMBDA ifft_real :
    With(TimeSeriesInit(Arange(Len(psd.frequency), RDiv(R(1), fs.fsampling)), ifft_real), LAMBDA ts :
        IF two.err # "" THEN Raise(two.err, self)
        ELSE IF psd.sided # 2 THEN Raise("AssertionError", self)
        ELSE IF psd.response.ndim < 2 THEN Raise("IndexError", self)
        ELSE IF psd.response.ncols # 1 THEN Raise("AssertionError", self)
        ELSE IF psd.octave_spacing # 0 THEN Raise("NotImplementedError", self)
        ELSE IF PSD_df(psd).err # "" THEN Raise(PSD_df(psd).err, self)
        ELSE IF fs.err # "" THEN Raise(fs.err, self)
        ELSE IF ts.err # "" THEN Raise(ts.err, self)
        ELSE Result("", self, ts.out, FALSE))))))

\* element i of an array operand of length len under numpy broadcasting
Bcast(a, i) == IF Len(a) = 1 THEN a[1] ELSE a[i]

\* grms1.sum() in to_vrs with grms0 = num0 / denom
to_vrs_grms1_sum_NoUnit(self, zeta, df, fn) ==
    LET grms1(k) ==
            LET rho == RDiv(Bcast(self.frequency, k), fn)
                rho2 == RMul(rho, rho)
                num0 == RMul(RMul(R(4), RMul(zeta, zeta)), rho2)
                denom == RAdd(RMul(RSub(R(1), rho2), RSub(R(1), rho2)), num0)
            IN  RMul(RMul(RDiv(num0, denom), Bcast(self.response.data, k)), df)
    IN  RSum([k \in 1..Len(self.frequency) |-> grms1(k)])

\* grms1.sum() in to_vrs for the natural frequency fn: the sum over the grid
\* of  (1 + num0) / denom * self.response[:, 0] * df
to_vrs_grms1_sum(self, zeta, df, fn) ==
    LET grms1(k) ==
            LET rho == RDiv(Bcast(self.frequency, k), fn)
                rho2 == RMul(rho, rho)
                num0 == RMul(RMul(R(4), RMul(zeta, zeta)), rho2)
                denom == RAdd(RMul(RSub(R(1), rho2), RSub(R(1), rho2)), num0)
                grms0 == RDiv(RAdd(R(1), num0), denom)
            IN  RMul(RMul(grms0, Bcast(self.response.data, k)), df)
        n == IF Len(self.frequency) > Rows(self.response) THEN Len(self.frequency) ELSE Rows(self.response)
    IN  RSum([k \in 1..n |-> grms1(k)])

\* PowerSpectralDensity.to_vrs(Q)
PSD_to_vrs(self, Q) ==
    LET nfreq == Len(self.frequency)
        nrows == Rows(self.response)
    IN  IF Q = 0 THEN Raise("ZeroDivisionError", self)
        ELSE IF self.response.ndim < 2 THEN Raise("IndexError", self)
        ELSE IF nfreq # nrows /\ nfreq # 1 /\ nrows # 1 THEN Raise("ValueError", self)
        ELSE
        With(Rat(1, 2 * Q), LAMBDA zeta :
        With(RDiv(RSub(self.frequency[nfreq], self.frequency[1]), R(nfreq - 1)), LAMBDA df :
        With(Array1([i \in 1..nfreq |-> RSqrt(to_vrs_grms1_sum(self, zeta, df, self.frequency[i]))]), LAMBDA grmss :
        With(PowerSpectralDensityInit("VibrationResponseSpectra", self.frequency, grmss, self.sided, Tri(self.is_onesided_center), self.octave_spacing), LAMBDA vrs :
            IF vrs.err # "" THEN Raise(vrs.err, self)
            ELSE ResultSharing(self, vrs.out)))))

\* PowerSpectralDensity.to_sdof_transmissibility(Q, fn).  With c = 2 zeta rho
\* and d = 1 - rho^2 the value (1 + c j) / (d + c j) is
\* ((d + c^2) + (c d - c) j) / (d^2 + c^2), kept as the pair <<re, im>>.  The
\* entity is constructed on a copy of self.frequency.
PSD_to_sdof_transmissibility(self, Q, fn) ==
    IF Q = 0 THEN Raise("ZeroDivisionError", self)
    ELSE
    With(Rat(1, 2 * Q), LAMBDA zeta :
    With([k \in 1..Len(self.frequency) |->
             LET rho == RDiv(self.frequency[k], R(fn))
                 c == RMul(RMul(R(2), zeta), rho)
                 d == RSub(R(1), RMul(rho, rho))
                 m == RAdd(RMul(d, d), RMul(c, c))
             IN  <<RDiv(RAdd(d, RMul(c, c)), m), RDiv(RSub(RMul(c, d), c), m)>>], LAMBDA transmissibility :
    With(FourierTransformInit(self.frequency, NdArray(transmissibility, 1, 0, "complex128"), "real_imag", 1, "False"), LAMBDA trans :
        IF trans.err # "" THEN Raise(trans.err, self)
        ELSE Result("", self, trans.out, FALSE))))

\* PowerSpectralDensity.to_sdof_vrs_response(Q, fn).  abs(num / denom) at
\* the frequency f is fn^2 f^2 / sqrt((fn^2 - f^2)^2 + (2 zeta f fn)^2); the
\* array is then scaled by self.response[0, 0] / psd_response[0].  When the
\* first value is finite and not 0 the scaled first value is
\* self.response[0, 0]; when it is 0 the scale is inf (or nan) and the
\* scaled first value 0 * inf is nan.
PSD_to_sdof_vrs_response(self, Q, fn) ==
    IF Q = 0 THEN Raise("ZeroDivisionError", self)
    ELSE IF self.response.ndim < 2 \/ Rows(self.response) = 0 THEN Raise("IndexError", self)
    ELSE
    With(Rat(1, 2 * Q), LAMBDA zeta :
    With([k \in 1..Len(self.frequency) |-> RMul(RMul(R(fn), R(fn)), RMul(self.frequency[k], self.frequency[k]))], LAMBDA num :
    With([k \in 1..Len(self.frequency) |->
             LET re == RSub(RMul(R(fn), R(fn)), RMul(self.frequency[k], self.frequency[k]))
                 im == RMul(RMul(R(2), zeta), RMul(self.frequency[k], R(fn)))
             IN  RAdd(RMul(re, re), RMul(im, im))], LAMBDA denom2 :
    With([k \in 1..Len(self.frequency) |-> RDiv(num[k], RSqrt(denom2[k]))], LAMBDA psd_response :
    With(RDiv(self.response.data[1], psd_response[1]), LAMBDA scale :
    With([k \in 1..Len(self.frequency) |->
             IF k = 1
             THEN IF IsNaR(num[1]) \/ num[1] = R(0) \/ IsNaR(denom2[1]) \/ denom2[1] = R(0) THEN NaR
                  ELSE self.response.data[1]
             ELSE RMul(psd_response[k], scale)], LAMBDA scaled :
    With(PowerSpectralDensityInit("VibrationResponseSpectra", self.frequency, Array1(scaled), 1, "False", 0), LAMBDA vrs :
        IF vrs.err # "" THEN Raise(vrs.err, self)
        ELSE ResultSharing(self, vrs.out))))))))

(***************************************************************************)
(* TimeSeries and FourierTransform                                         *)
(***************************************************************************)
\* the mag_phase re-encoding mag + 1j * phase of one transform value: a
\* non-negative real value has phase 0; any other magnitude or phase is
\* not a rational
MagPhase(z, N) ==
    IF N \in {1, 2, 3, 4, 6} /\ ~IsNaR(z[1]) /\ z[2] = R(0) /\ z[1][1] >= 0
    THEN z ELSE CNaR

\* TimeSeries.to_fft(sided, fft_type); sp.fft.fft rejects an empty array
TS_to_fft(self, sided, fft_type) ==
    IF Rows(self.response) = 0 THEN Raise("ValueError", self)
    ELSE
    With(Len(self.time), LAMBDA ntimes :
    With(_response_squeeze(self.response), LAMBDA response :
    With(Scale2(fft([i \in 1..Len(response) |-> C(response[i])]), Rat(1, ntimes)), LAMBDA fft_response :
    With(IF fft_type = "mag_phase" THEN [i \in 1..Len(response) |-> MagPhase(fft_response[i], Len(response))] ELSE fft_response, LAMBDA encoded :
    With(_onesided_frequency(RDiv(RSub(self.time[ntimes], self.time[1]), R(ntimes - 1)), self.time[ntimes], ntimes), LAMBDA frequency :
    With(FourierTransformInit(frequency, NdArray(encoded, 1, 0, "complex128"), fft_type, sided, Tri(ntimes % 2 = 1)), LAMBDA ft :
        IF Len(response) # ntimes THEN Raise("AssertionError", self)
        ELSE IF ft.err # "" THEN Raise(ft.err, self)
        ELSE Result("", self, ft.out, FALSE)))))))

\* sp.signal.welch(x, fs, window, nperseg, noverlap, return_onesided) for a
\* real x and a window given by name.  A segment longer than x is shortened
\* to len(x) (with a warning); nfft is the segment length; the frequencies
\* are rfftfreq(nfft, 1/fs) = [0 .. nfft//2] * fs/nfft when one-sided and
\* fftfreq(nfft, 1/fs) (non-negative bins, then the negative ones) when
\* two-sided.  The densities are averages of windowed periodograms, which
\* the model does not compute (NaR): one per frequency.
welch(x, fs, nperseg, noverlap, return_onesided) ==
    With(IF nperseg > Len(x) THEN Len(x) ELSE nperseg, LAMBDA nfft :
        IF Len(x) = 0 THEN [err |-> "", frequency |-> <<>>, response |-> <<>>]
        ELSE IF nperseg < 1 THEN [err |-> "ValueError", frequency |-> <<>>, response |-> <<>>]
        ELSE IF noverlap >= nfft THEN [err |-> "ValueError", frequency |-> <<>>, response |-> <<>>]
        ELSE With(IF return_onesided
                  THEN [k \in 1..((nfft \div 2) + 1) |-> RMul(R(k - 1), RDiv(fs, R(nfft)))]
                  ELSE [k \in 1..nfft |->
                           RMul(R(IF k - 1 <= (nfft - 1) \div 2 THEN k - 1 ELSE k - 1 - nfft), RDiv(fs, R(nfft)))], LAMBDA frequency :
                 [err |-> "", frequency |-> frequency, response |-> [k \in 1..Len(frequency) |-> NaR]]))

\* TimeSeries.to_psd_welch(sided, window, window_size_sec, overlap_sec).
\* np.allclose(fmax, fsampling) is equality on the rationals of the model.
TS_to_psd_welch(self, sided, window_size_sec, overlap_sec) ==
    IF sided \notin {1, 2} THEN Raise("AssertionError", self)
    ELSE IF Len(self.time) < 2 THEN Raise("IndexError", self)
    ELSE
    With(RDiv(R(1), RSub(self.time[2], self.time[1])), LAMBDA fsampling :
    With(RInt(RMul(fsampling, R(window_size_sec))), LAMBDA window_size_int :
    With(RInt(RMul(fsampling, R(overlap_sec))), LAMBDA overlap_int :
    With(welch(_response_squeeze(self.response), fsampling, window_size_int, overlap_int, sided = 1), LAMBDA w :
        IF w.err # "" THEN Raise(w.err, self)
        ELSE IF Len(w.frequency) = 0 THEN Raise("IndexError", self)
        ELSE
        With(w.frequency[Len(w.frequency)], LAMBDA fmax :
        With(IF sided = 1 THEN ~(fmax = fsampling) ELSE TRUE, LAMBDA is_onesided_center :
        With(PowerSpectralDensityInit("PowerSpectralDensity", w.frequency, Array1(w.response), sided, Tri(is_onesided_center), 0), LAMBDA psd :
            IF psd.err # "" THEN Raise(psd.err, self)
            ELSE Result("", self, psd.out, FALSE))))))))

\* dft_to_onesided(frequency, response): returns the whole frequency array
\* with the first ifreq response rows
dft_to_onesided(frequency, response) ==
    LET nfreq == Len(frequency)
        is_onesided_center == (nfreq % 2 = 1)
        ifreq == IF is_onesided_center THEN (nfreq \div 2) + 1 ELSE nfreq \div 2
    IN  IF response.ndim # 2 THEN [err |-> "IndexError", frequency |-> <<>>, response |-> NoArray, is_onesided_center |-> FALSE]
        ELSE [err |-> "", frequency |-> frequency,
              response |-> [response EXCEPT !.data = Take(response.data, ifreq)],
              is_onesided_center |-> is_onesided_center]

\* FourierTransform.to_onesided(inplace), of both FourierTransform classes:
\* the arrays dft_to_onesided returns are not assigned
FT_to_onesided(self, inplace) ==
    With(dft_to_onesided(self.frequency, self.response), LAMBDA r :
        IF self.sided = 1 THEN Result("", self, self, TRUE)
        ELSE IF self.sided # 2 THEN Raise("AssertionError", self)
        ELSE IF r.err # "" THEN Raise(r.err, self)
        ELSE With([self EXCEPT !.sided = 1, !.is_onesided_center = r.is_onesided_center], LAMBDA mutated :
                 Result("", mutated, mutated, TRUE)))

\* FourierTransform.to_time() without its assertion on sided
FT_to_time_AnySided(self) ==
    IF Len(self.frequency) < 2 THEN Raise("IndexError", self)
    ELSE
    With(RSub(self.frequency[2], self.frequency[1]), LAMBDA df :
    With(_to_twosided_fsampling(self.frequency[Len(self.frequency)], df, self.sided, self.is_onesided_center).fsampling, LAMBDA fsampling :
    With(RDiv(R(1), df), LAMBDA tmax :
    With(RDiv(R(1), fsampling), LAMBDA dt :
        IF IsNaR(RDiv(tmax, dt)) THEN Raise("ValueError", self)
        ELSE
        With(RCeil(RDiv(tmax, dt)), LAMBDA ntimes :
        With(Array1([i \in 1..Len(self.response.data) |-> NaR]), LAMBDA ifft_real :
        With(Arange(ntimes, dt), LAMBDA time :
        With(TimeSeriesInit(time, ifft_real), LAMBDA ts :
            IF ts.err # "" THEN Raise(ts.err, self)
            ELSE Result("", self, ts.out, FALSE)))))))))

\* FourierTransform.to_time(), of both FourierTransform classes
FT_to_time(self) ==
    IF self.sided # 2 THEN Raise("AssertionError", self)
    ELSE IF Len(self.frequency) < 2 THEN Raise("IndexError", self)
    ELSE
    With(RSub(self.frequency[2], self.frequency[1]), LAMBDA df :
    With(_to_twosided_fsampling(self.frequency[Len(self.frequency)], df, self.sided, self.is_onesided_center).fsampling, LAMBDA fsampling :
    With(RDiv(R(1), df), LAMBDA tmax :
    With(RDiv(R(1), fsampling), LAMBDA dt :
        IF IsNaR(RDiv(tmax, dt)) THEN Raise("ValueError", self)
        ELSE
        With(RCeil(RDiv(tmax, dt)), LAMBDA ntimes :
        With(ifft(Scale2(_response_squeeze(self.response), R(ntimes))), LAMBDA inverse :
        With(Array1([i \in 1..Len(inverse) |-> Real(inverse[i], Len(inverse))]), LAMBDA ifft_real :
        With(Arange(ntimes, dt), LAMBDA time :
        With(IF self.kind = "dynamight.FourierTransform" THEN DyTimeSeriesInit(time, ifft_real) ELSE TimeSeriesInit(time, ifft_real), LAMBDA ts :
            IF ts.err # "" THEN Raise(ts.err, self)
            ELSE Result("", self, ts.out, FALSE))))))))))

(***************************************************************************)
(* The state machine: one entity is constructed (or one module-level       *)
(* function is called), then methods are called on it, each call on the    *)
(* receiver or, chained, on the object the last call returned.  A raised   *)
(* error aborts the computation.                                           *)
(***************************************************************************)
VARIABLES
    self,    \* the receiver: the entity the calls are made on
    out,     \* the object the last call returned (None when it raised)
    err,     \* the error the last call raised, "" when none
    alias,   \* whether the last call returned the receiver itself
    shared,  \* whether out.frequency is the array object self.frequency
    op,      \* the last call: its name and arguments
    pre,     \* the receiver before the last call
    orig,    \* the entity as the caller constructed it
    hist     \* the names of the calls made since then, in order

vars == <<self, out, err, alias, shared, op, pre, orig, hist>>

\* a call record, with the arguments the call does not take left at these
\* defaults
NoCall ==
    [name |-> "", inplace |-> FALSE, time |-> <<>>, frequency |-> <<>>,
     response |-> NoArray,
     fft_type |-> "", sided |-> 0, is_onesided_center |-> "",
     octave_spacing |-> 0, fmax |-> NaR, df |-> NaR, Q |-> 0, fn |-> 0,
     window_size_sec |-> 0, overlap_sec |-> 0]

PSDKinds == {"PowerSpectralDensity", "VibrationResponseSpectra"}
FTKinds == {"FourierTransform", "dynamight.FourierTransform"}
TSKinds == {"TimeSeries", "dynamight.TimeSeries"}

\* the input arrays: n >= 1 rows with values in Vals
Data(n) == {[i \in 1..n |-> R(v[i])] : v \in [1..n -> Vals]}

\* the array layouts a caller may pass: 1-D, [n x 1], [n x 2]; float or complex
Layouts == {<<1, 0>>, <<2, 1>>, <<2, 2>>}
DTypes == {"float64", "complex128"}

Init ==
    /\ self = None
    /\ out = None
    /\ err = ""
    /\ alias = FALSE
    /\ shared = FALSE
    /\ op = NoCall
    /\ pre = None
    /\ orig = None
    /\ hist = <<>>

\* the state after a constructor call c with result r
Constructed(c, r) ==
    /\ self' = r.out
    /\ out' = r.out
    /\ err' = r.err
    /\ alias' = (r.err = "")
    /\ shared' = (r.err = "")
    /\ op' = c
    /\ pre' = None
    /\ orig' = r.out
    /\ hist' = <<>>

\* the state after a module-level function call c that raised e or returned o
Called(c, e, o) ==
    /\ out' = o
    /\ err' = e
    /\ op' = c
    /\ UNCHANGED <<self, alias, shared, pre, orig, hist>>

\* the state after a method call c on the receiver, with result r
Invoked(c, r) ==
    /\ self' = r.self
    /\ out' = r.out
    /\ err' = r.err
    /\ alias' = r.alias
    /\ shared' = (IF "shares" \in DOMAIN r THEN r.shares ELSE r.alias)
    /\ op' = c
    /\ pre' = self
    /\ hist' = Append(hist, c.name)
    /\ UNCHANGED orig

\* nothing was constructed or called yet
Fresh == self = None /\ err = "" /\ op = NoCall

\* a method of the classes in kinds may be called on the receiver
Callable(kinds) == self.kind \in kinds /\ err = "" /\ Len(hist) < MaxOps

NewTimeSeries ==
    /\ Fresh
    /\ \E n \in SampleCounts, step \in Steps, short \in {0, 1}, lay \in {<<1, 0>>, <<2, 1>>}, dtype \in DTypes :
           \E data \in Data(n - short) :
               LET time == Arange(n, R(step))
                   response == NdArray(data, lay[1], lay[2], dtype)
               IN  Constructed([NoCall EXCEPT !.name = "TimeSeries", !.time = time, !.response = response],
                               TimeSeriesInit(time, response))

NewFourierTransform ==
    /\ Fresh
    /\ \E kind \in FTKinds, n \in 1..MaxN, step \in Steps, short \in {0, 1}, fft_type \in {"real_imag", "mag_phase", "polar"}, sided \in {1, 2}, c \in {"True", "False", "None"} :
           \E data \in Data(n - short) :
               LET frequency == Arange(n, R(step))
                   response == NdArray([i \in 1..(n - short) |-> C(data[i])], 1, 0, "complex128")
                   call == [NoCall EXCEPT !.name = kind, !.frequency = frequency, !.response = response, !.fft_type = fft_type, !.sided = sided, !.is_onesided_center = c]
               IN  IF kind = "FourierTransform"
                   THEN Constructed(call, FourierTransformInit(frequency, response, fft_type, sided, c))
                   ELSE Constructed(call, DyFourierTransformInit(frequency, response, fft_type, sided, c))

NewPowerSpectralDensity ==
    /\ Fresh
    /\ \E cls \in PSDKinds, n \in 1..MaxN, step \in Steps, short \in {0, 1}, lay \in Layouts, dtype \in DTypes, sided \in {1, 2, 3}, c \in {"True", "False", "None"}, octave_spacing \in {-1, 0, 1} :
           \E data \in Data(n - short) :
               LET frequency == Arange(n, R(step))
                   response == NdArray(data, lay[1], lay[2], dtype)
               IN  Constructed([NoCall EXCEPT !.name = cls, !.frequency = frequency, !.response = response, !.sided = sided, !.is_onesided_center = c, !.octave_spacing = octave_spacing],
                               PowerSpectralDensityInit(cls, frequency, response, sided, c, octave_spacing))

\* the frequency grids resample is called with
ResampleGrids == {<<R(1), R(2), R(3)>>}

\* psd_to_onesided called on a two-sided density of n bins
CallPsdToOnesided ==
    /\ Fresh
    /\ \E n \in 1..MaxN, step \in Steps :
           \E data \in Data(n) :
               LET frequency == Arange(n, R(step))
                   response == Column(data)
                   r == psd_to_onesided(frequency, response)
               IN  Called([NoCall EXCEPT !.name = "psd_to_onesided", !.frequency = frequency, !.response = response],
                          r.err,
                          [None EXCEPT !.kind = "tuple", !.frequency = r.frequency, !.response = r.response, !.is_onesided_center = r.is_onesided_center])

\* psd_to_twosided called on a one-sided density of n bins
CallPsdToTwosided ==
    /\ Fresh
    /\ \E n \in 1..MaxN, step \in Steps, c \in BOOLEAN :
           \E data \in Data(n) :
               LET frequency == Arange(n, R(step))
                   response == Column(data)
                   r == psd_to_twosided(frequency, response, c, R(step))
               IN  Called([NoCall EXCEPT !.name = "psd_to_twosided", !.frequency = frequency, !.response = response, !.is_onesided_center = Tri(c), !.df = R(step)],
                          r.err,
                          [None EXCEPT !.kind = "tuple", !.frequency = r.frequency, !.response = r.response])

\* _to_twosided_fsampling called
CallToTwosidedFsampling ==
    /\ Fresh
    /\ \E fmax \in 0..MaxN, step \in Steps, sided \in {1, 2, 3}, c \in BOOLEAN :
           LET r == _to_twosided_fsampling(R(fmax), R(step), sided, c)
           IN  Called([NoCall EXCEPT !.name = "_to_twosided_fsampling", !.fmax = R(fmax), !.df = R(step), !.sided = sided, !.is_onesided_center = Tri(c)],
                      r.err, Float(r.fsampling))

ToOnesided ==
    /\ Callable(PSDKinds)
    /\ \E inplace \in BOOLEAN :
           \E r \in {PSD_to_onesided(self, inplace)} :
               Invoked([NoCall EXCEPT !.name = "to_onesided", !.inplace = inplace], r)

ToTwosided ==
    /\ Callable(PSDKinds)
    /\ \E inplace \in BOOLEAN :
           \E r \in {PSD_to_twosided(self, inplace)} :
               Invoked([NoCall EXCEPT !.name = "to_twosided", !.inplace = inplace], r)

Resample ==
    /\ Callable(PSDKinds)
    /\ \E frequency \in ResampleGrids, inplace \in BOOLEAN :
           \E r \in {PSD_resample(self, frequency, inplace)} :
               Invoked([NoCall EXCEPT !.name = "resample", !.inplace = inplace, !.frequency = frequency], r)

\* psd.df read
GetDf ==
    /\ Callable(PSDKinds)
    /\ \E r \in {PSD_df(self)} :
           Invoked([NoCall EXCEPT !.name = "df"],
                   IF r.err # "" THEN Raise(r.err, self) ELSE Result("", self, Float(r.df), FALSE))

\* psd.fsampling read
GetFsampling ==
    /\ Callable(PSDKinds)
    /\ \E r \in {PSD_fsampling(self)} :
           Invoked([NoCall EXCEPT !.name = "fsampling"],
                   IF r.err # "" THEN Raise(r.err, self) ELSE Result("", self, Float(r.fsampling), FALSE))

\* to_vrs called on the PSD as constructed
ToVrs ==
    /\ Callable(PSDKinds) /\ hist = <<>>
    /\ \E Q \in Qs :
           \E r \in {PSD_to_vrs(self, Q)} :
               Invoked([NoCall EXCEPT !.name = "to_vrs", !.Q = Q], r)

\* to_sdof_vrs_response called on the PSD as constructed
ToSdofVrsResponse ==
    /\ Callable(PSDKinds) /\ hist = <<>>
    /\ \E Q \in Qs, fn \in Fns :
           \E r \in {PSD_to_sdof_vrs_response(self, Q, fn)} :
               Invoked([NoCall EXCEPT !.name = "to_sdof_vrs_response", !.Q = Q, !.fn = fn], r)

\* to_sdof_transmissibility called on the PSD as constructed
ToSdofTransmissibility ==
    /\ Callable(PSDKinds) /\ hist = <<>>
    /\ \E Q \in Qs, fn \in Fns :
           \E r \in {PSD_to_sdof_transmissibility(self, Q, fn)} :
               Invoked([NoCall EXCEPT !.name = "to_sdof_transmissibility", !.Q = Q, !.fn = fn], r)

\* the divisor of  tf.frequency /= 100.
FrequencyDivisor == 100

\* the methods that derive a response entity from a PSD
Derivations == {"to_sdof_transmissibility", "to_sdof_vrs_response", "to_vrs"}

\* out.frequency /= 100. on the entity a derivation returned: the array
\* object is divided in place, and with it every entity that holds it
DivideFrequency ==
    /\ err = "" /\ Len(hist) < MaxOps
    /\ op.name \in Derivations
    /\ out.kind \in PSDKinds \cup FTKinds
    /\ \E divided \in {[k \in 1..Len(out.frequency) |-> RDiv(out.frequency[k], R(FrequencyDivisor))]} :
           /\ out' = [out EXCEPT !.frequency = divided]
           /\ self' = IF shared THEN [self EXCEPT !.frequency = divided] ELSE self
    /\ pre' = self
    /\ op' = [NoCall EXCEPT !.name = "frequency /="]
    /\ hist' = Append(hist, "frequency /=")
    /\ UNCHANGED <<err, alias, shared, orig>>

ToTimeSeries ==
    /\ Callable(PSDKinds)
    /\ \E r \in {PSD_to_time_series(self)} :
           Invoked([NoCall EXCEPT !.name = "to_time_series"], r)

ToFft ==
    /\ Callable({"TimeSeries"})
    /\ \E sided \in {1, 2}, fft_type \in {"real_imag", "mag_phase"} :
           \E r \in {TS_to_fft(self, sided, fft_type)} :
               Invoked([NoCall EXCEPT !.name = "to_fft", !.sided = sided, !.fft_type = fft_type], r)

\* the window_size_sec and overlap_sec passed to to_psd_welch
WindowSizes == {2, 3, 4, 6}
Overlaps == {0, 1, 2}

\* to_psd_welch called on the signal as constructed
ToPsdWelch ==
    /\ Callable({"TimeSeries"}) /\ hist = <<>>
    /\ \E sided \in {1, 2, 3}, window_size_sec \in WindowSizes, overlap_sec \in Overlaps :
           \E r \in {TS_to_psd_welch(self, sided, window_size_sec, overlap_sec)} :
               Invoked([NoCall EXCEPT !.name = "to_psd_welch", !.sided = sided,
                                      !.window_size_sec = window_size_sec, !.overlap_sec = overlap_sec], r)

FtToOnesided ==
    /\ Callable(FTKinds)
    /\ \E inplace \in BOOLEAN :
           \E r \in {FT_to_onesided(self, inplace)} :
               Invoked([NoCall EXCEPT !.name = "to_onesided", !.inplace = inplace], r)

ToTime ==
    /\ Callable(FTKinds)
    /\ \E r \in {FT_to_time(self)} :
           Invoked([NoCall EXCEPT !.name = "to_time"], r)

\* a chained call: the object the last call returned becomes the receiver
Chain ==
    /\ err = "" /\ ~alias /\ Len(hist) < MaxOps
    /\ out.kind \in PSDKinds \cup FTKinds \cup TSKinds
    /\ self' = out
    /\ pre' = self
    /\ op' = [NoCall EXCEPT !.name = "chain"]
    /\ hist' = Append(hist, "chain")
    /\ alias' = TRUE
    /\ shared' = TRUE
    /\ UNCHANGED <<out, err, orig>>

Next ==
    \/ NewTimeSeries
    \/ NewFourierTransform
    \/ NewPowerSpectralDensity
    \/ CallPsdToOnesided
    \/ CallPsdToTwosided
    \/ CallToTwosidedFsampling
    \/ ToOnesided
    \/ ToTwosided
    \/ Resample
    \/ GetDf
    \/ GetFsampling
    \/ ToTimeSeries
    \/ ToFft
    \/ FtToOnesided
    \/ ToTime
    \/ Chain

Spec == Init /\ [][Next]_vars

(***************************************************************************)
(* The response-spectrum methods, called on a PSD constructed on a grid    *)
(* first + k*step that need not start at frequency 0                       *)
(***************************************************************************)
\* the first frequency of the grids
Firsts == {0, 1}

\* first + arange(n) * step
Grid(n, first, step) == [k \in 1..n |-> RAdd(R(first), RMul(R(k - 1), step))]

NewSpectrumPsd ==
    /\ Fresh
    /\ \E n \in 1..MaxN, first \in Firsts, step \in Steps, sided \in {1, 2}, c \in BOOLEAN, octave_spacing \in {0, 1} :
           \E data \in Data(n) :
               LET frequency == Grid(n, first, R(step))
                   response == Array1(data)
               IN  Constructed([NoCall EXCEPT !.name = "PowerSpectralDensity", !.frequency = frequency, !.response = response, !.sided = sided, !.is_onesided_center = Tri(c), !.octave_spacing = octave_spacing],
                               PowerSpectralDensityInit("PowerSpectralDensity", frequency, response, sided, Tri(c), octave_spacing))

NextSpectra ==
    \/ NewSpectrumPsd
    \/ ToVrs
    \/ ToSdofVrsResponse
    \/ ToSdofTransmissibility
    \/ DivideFrequency
    \/ Chain

SpecSpectra == Init /\ [][NextSpectra]_vars

(***************************************************************************)
(* Welch's method on a signal, and the sampling rate of the PSD it returns *)
(***************************************************************************)
NextWelch ==
    \/ NewTimeSeries
    \/ ToPsdWelch
    \/ Chain
    \/ GetFsampling

SpecWelch == Init /\ [][NextWelch]_vars

(***************************************************************************)
(* Properties                                                              *)
(***************************************************************************)
\* the receiver was constructed as a PowerSpectralDensity on a uniform grid
\* (octave_spacing 0) with one response row per frequency
ValidPSD(e) ==
    /\ e.kind \in PSDKinds
    /\ e.octave_spacing = 0
    /\ e.response.ndim = 2 /\ e.response.ncols = 1
    /\ Rows(e.response) = Len(e.frequency)

\* the spacing of a grid k*df
GridStep(frequency) ==
    IF Len(frequency) >= 2 THEN RSub(frequency[2], frequency[1]) ELSE R(1)

\* C1: a two-sided PSD with n >= 2 bins on the grid k*df, converted by
\* to_onesided and then by to_twosided, yields an entity whose frequency and
\* response equal, element for element and in length, those it started with
C1_RoundTrip ==
    ( /\ hist = <<"to_onesided", "to_twosided">>
      /\ ValidPSD(orig) /\ orig.sided = 2 /\ Len(orig.frequency) >= 2
      /\ pre.sided = 1 )
    => ( /\ err = ""
         /\ out.frequency = orig.frequency
         /\ out.response.data = orig.response.data )

\* C2: the total energy sum(density)*df of a two-sided density array equals
\* that of the one-sided array psd_to_onesided makes of it
C2_EnergyConserved ==
    (op.name = "psd_to_onesided")
    => ( /\ err = ""
         /\ RMul(RSum(out.response.data), GridStep(op.frequency))
              = RMul(RSum(op.response.data), GridStep(op.frequency)) )

\* C3: _to_twosided_fsampling returns fmax when sided is 2, 2*fmax when sided
\* is 1 and is_onesided_center, and 2*fmax + df when sided is 1 and not
\* is_onesided_center; (3, 1, 1, true) gives 6 and (1, 1, 1, false) gives 3
C3_SamplingRate ==
    (op.name = "_to_twosided_fsampling" /\ op.sided \in {1, 2})
    => ( /\ err = ""
         /\ out.kind = "float"
         /\ op.sided = 2 => out.response.data[1] = op.fmax
         /\ (op.sided = 1 /\ op.is_onesided_center = "True")
              => out.response.data[1] = RAdd(op.fmax, op.fmax)
         /\ (op.sided = 1 /\ op.is_onesided_center = "False")
              => out.response.data[1] = RAdd(RAdd(op.fmax, op.fmax), op.df)
         /\ (op.sided = 1 /\ op.is_onesided_center = "True" /\ op.fmax = R(3) /\ op.df = R(1))
              => out.response.data[1] = R(6)
         /\ (op.sided = 1 /\ op.is_onesided_center = "False" /\ op.fmax = R(1) /\ op.df = R(1))
              => out.response.data[1] = R(3) )

\* a one-sided _to_twosided_fsampling(1, 1, 1, False) returned 3
C3_Witness ==
    /\ op.name = "_to_twosided_fsampling"
    /\ op.sided = 1 /\ op.is_onesided_center = "False"
    /\ op.fmax = R(1) /\ op.df = R(1)
    /\ err = "" /\ out.response.data[1] = R(3)

\* the number of bins psd_to_onesided retains of n
Half(n) == IF n % 2 = 1 THEN (n \div 2) + 1 ELSE n \div 2

\* C4: psd_to_onesided of a two-sided density of n >= 1 bins retains the
\* first half bins of frequency and response, returns is_onesided_center =
\* (n is odd), and doubles every retained bin except bin 0 and, when n is odd,
\* the last retained bin, which equal the input bins
C4_Onesided ==
    (op.name = "psd_to_onesided")
    => LET n == Len(op.frequency)
           r == op.response.data
       IN  /\ err = ""
           /\ out.frequency = Take(op.frequency, Half(n))
           /\ Len(out.response.data) = Half(n)
           /\ out.is_onesided_center = (n % 2 = 1)
           /\ \A i \in 1..Half(n) :
                  out.response.data[i] =
                      IF i = 1 \/ (n % 2 = 1 /\ i = Half(n)) THEN r[i]
                      ELSE RMul(R(2), r[i])

\* C5: psd_to_twosided of a one-sided density r of n >= 1 bins returns the
\* grid k*df with 2n-1 entries when is_onesided_center and 2n entries
\* otherwise, and a response of the same length as that grid: the mirrored
\* array concat(r, reverse(r)) with every bin halved except bin 0 and, when
\* is_onesided_center, the last original bin n-1
C5_Twosided ==
    (op.name = "psd_to_twosided")
    => LET n == Len(op.frequency)
           center == (op.is_onesided_center = "True")
           mirrored == op.response.data \o Flipud(op.response.data)
       IN  /\ err = ""
           /\ out.frequency = Arange(IF center THEN 2 * n - 1 ELSE 2 * n, op.df)
           /\ Len(out.response.data) = Len(out.frequency)
           /\ \A i \in 1..Len(out.response.data) :
                  out.response.data[i] =
                      IF i = 1 \/ (center /\ i = n) THEN mirrored[i]
                      ELSE RDiv(mirrored[i], R(2))

\* the response of a PSD entity is [nfreq x 1]
ShapeOK(e) ==
    e.kind \in PSDKinds
    => ( /\ e.response.ndim = 2 /\ e.response.ncols = 1
         /\ Rows(e.response) = Len(e.frequency) )

\* C6: after any sequence of to_onesided, to_twosided and resample calls
\* (inplace or not) on a validly constructed PSD, the response of the entity,
\* and of the entity a call returned, is two-dimensional with one column
\* and one row per frequency
C6_ResponseShape ==
    ( /\ ValidPSD(orig)
      /\ \A i \in 1..Len(hist) : hist[i] \in {"to_onesided", "to_twosided", "resample"} )
    => (ShapeOK(self) /\ ShapeOK(out))

\* C7: every Signal returned by to_time on a two-sided transform with one
\* response row per bin, and by to_time_series on a PSD, has as many
\* response rows as time samples
C7_SignalShape ==
    ( /\ err = "" /\ out.kind \in TSKinds
      /\ \/ op.name = "to_time" /\ Rows(pre.response) = Len(pre.frequency)
         \/ op.name = "to_time_series" /\ ValidPSD(pre) )
    => Rows(out.response) = Len(out.time)

\* C8: a Signal of n >= 2 uniformly spaced real samples starting at time 0,
\* converted by to_fft(sided = 2) and then by to_time, comes back with the
\* same time samples and the same response values
C8_TransformRoundTrip ==
    ( /\ hist = <<"to_fft", "chain", "to_time">>
      /\ orig.kind = "TimeSeries" /\ Rows(orig.response) = Len(orig.time)
      /\ Len(orig.time) >= 2
      /\ self.sided = 2 /\ self.fft_type = "real_imag" )
    => ( /\ err = ""
         /\ out.time = orig.time
         /\ out.response.data = orig.response.data )

\* C9: construction fails, and produces no entity, for a TimeSeries given a
\* complex response; for a PowerSpectralDensity or VibrationResponseSpectra
\* given a complex response, is_onesided_center = None, more than one
\* response column, sided outside {1, 2} or octave_spacing < 0; for a
\* FourierTransform given is_onesided_center = None or an unknown fft_type
C9_ConstructionFails ==
    ( \/ op.name = "TimeSeries" /\ op.response.dtype = "complex128"
      \/ /\ op.name \in PSDKinds
         /\ \/ op.response.dtype = "complex128"
            \/ op.is_onesided_center = "None"
            \/ op.response.ndim = 2 /\ op.response.ncols > 1
            \/ op.sided \notin {1, 2}
            \/ op.octave_spacing < 0
      \/ /\ op.name \in FTKinds
         /\ \/ op.is_onesided_center = "None"
            \/ op.fft_type \notin {"real_imag", "mag_phase"} )
    => (err # "" /\ out.kind = "None" /\ self.kind = "None")

\* a VibrationResponseSpectra whose only fault is octave_spacing < 0 failed
C9_Witness ==
    /\ op.name = "VibrationResponseSpectra"
    /\ op.octave_spacing < 0
    /\ op.response.dtype = "float64" /\ op.response.ndim = 2 /\ op.response.ncols = 1
    /\ op.sided = 1 /\ op.is_onesided_center = "True"
    /\ err = "AssertionError" /\ self.kind = "None"

\* C10: constructing a TimeSeries whose response row count differs from
\* len(time), or a FourierTransform or PowerSpectralDensity whose response row
\* count differs from len(frequency), fails
C10_ShapeMismatchFails ==
    ( \/ op.name = "TimeSeries" /\ Rows(op.response) # Len(op.time)
      \/ /\ op.name \in PSDKinds \cup {"dynamight.FourierTransform"}
         /\ Rows(op.response) # Len(op.frequency) )
    => (err # "" /\ self.kind = "None")

\* C11: to_time called on a FourierTransform whose sided tag is not 2 aborts
\* (AssertionError) before computing anything and leaves the representation
\* unchanged, also when the representation came from to_fft(sided = 1) and
\* still holds all n bins
C11_ToTimeNeedsTwosided ==
    (op.name = "to_time" /\ pre.kind \in FTKinds /\ pre.sided # 2)
    => ( /\ err = "AssertionError"
         /\ out.kind = "None"
         /\ self = pre )

\* to_fft(sided = 1) of a Signal of 3 samples, then to_time on the
\* full-length transform it returned, aborted
C11_Witness ==
    /\ hist = <<"to_fft", "chain", "to_time">>
    /\ Len(orig.time) = 3
    /\ pre.sided = 1 /\ Len(pre.frequency) = 3 /\ Rows(pre.response) = 3
    /\ err = "AssertionError" /\ self = pre

\* C12: on a PowerSpectralDensity or VibrationResponseSpectra with
\* octave_spacing # 0, reading df, reading fsampling, calling to_time_series
\* and calling to_twosided (one-sided or already two-sided, inplace or not)
\* each abort with an error
C12_OctaveSpacingAborts ==
    ( /\ op.name \in {"df", "fsampling", "to_time_series", "to_twosided"}
      /\ pre.kind \in PSDKinds /\ pre.octave_spacing # 0 )
    => (err # "" /\ out.kind = "None")

\* to_twosided on an already two-sided entity with octave_spacing 1 aborted
\* in its re-validation of fsampling
C12_Witness ==
    /\ op.name = "to_twosided"
    /\ pre.kind \in PSDKinds /\ pre.sided = 2 /\ pre.octave_spacing = 1
    /\ Len(pre.frequency) >= 2
    /\ err = "RuntimeError" /\ out.kind = "None"

\* C13: to_fft(sided, fft_type) of a Signal of n samples, sided in {1, 2},
\* either encoding, returns a representation tagged with the requested sided,
\* with is_onesided_center = (n is odd), n frequency bins and n response rows
\* (nothing is truncated when sided is 1), and leaves the Signal unchanged
C13_ToFftTags ==
    ( /\ op.name = "to_fft" /\ op.sided \in {1, 2}
      /\ pre.kind = "TimeSeries" /\ Rows(pre.response) = Len(pre.time) )
    => LET n == Len(pre.time)
       IN  /\ err = ""
           /\ out.kind = "FourierTransform"
           /\ out.sided = op.sided
           /\ out.fft_type = op.fft_type
           /\ out.is_onesided_center = (n % 2 = 1)
           /\ Len(out.frequency) = n
           /\ Rows(out.response) = n /\ out.response.ndim = 2 /\ out.response.ncols = 1
           /\ self = pre /\ ~alias

\* to_fft(sided = 1) of a Signal of 4 samples returned a one-sided-tagged
\* transform of 4 bins
C13_Witness ==
    /\ op.name = "to_fft" /\ op.sided = 1
    /\ Len(pre.time) = 4 /\ Rows(pre.response) = 4
    /\ err = "" /\ out.sided = 1 /\ ~out.is_onesided_center
    /\ Len(out.frequency) = 4 /\ Rows(out.response) = 4

\* C14: FourierTransform.to_onesided on a two-sided representation of n bins
\* leaves it with sided = 1, is_onesided_center = (n is odd) and a response
\* truncated to its first half rows (n//2+1 when n is odd, n//2 when n is
\* even), the retained values unscaled
C14_FtToOnesidedTruncates ==
    ( /\ op.name = "to_onesided"
      /\ pre.kind \in FTKinds /\ pre.sided = 2
      /\ Rows(pre.response) = Len(pre.frequency) )
    => LET n == Len(pre.frequency)
       IN  /\ err = ""
           /\ self.sided = 1
           /\ self.is_onesided_center = (n % 2 = 1)
           /\ self.response.data = Take(pre.response.data, Half(n))

\* the sum the Miles formula gives for the natural frequency fn: over the
\* grid frequencies f, (1 + 4 zeta^2 rho^2) / ((1 - rho^2)^2 + 4 zeta^2 rho^2)
\* * d(f) * df, with rho = f / fn and zeta = 1 / (2 Q)
MilesSum(f, d, Q, fn) ==
    LET zeta2x4 == Rat(1, Q * Q)
        term(k) ==
            LET rho2 == RDiv(RMul(f[k], f[k]), RMul(fn, fn))
                one_minus == RSub(R(1), rho2)
            IN  RMul(RMul(RDiv(RAdd(R(1), RMul(zeta2x4, rho2)),
                               RAdd(RMul(one_minus, one_minus), RMul(zeta2x4, rho2))),
                          d[k]),
                     GridStep(f))
    IN  RSum([k \in 1..Len(f) |-> term(k)])

\* C15: to_vrs(Q) of a PSD on the grid f[0..n-1] with a single-column
\* density returns a VibrationResponseSpectra on the same grid with one value
\* per grid frequency fn, whose square is the Miles sum for fn (on a grid of
\* n >= 2 bins; the value is the exact root when the model computes it); the
\* result carries the PSD's sided, is_onesided_center and octave_spacing, and
\* the PSD is not modified
C15_VrsMilesSum ==
    ( /\ op.name = "to_vrs" /\ op.Q > 0
      /\ pre.kind \in PSDKinds
      /\ pre.response.ndim = 2 /\ pre.response.ncols = 1
      /\ Rows(pre.response) = Len(pre.frequency) )
    => LET n == Len(pre.frequency)
       IN  /\ err = ""
           /\ out.kind = "VibrationResponseSpectra"
           /\ out.frequency = pre.frequency
           /\ Rows(out.response) = n /\ out.response.ndim = 2 /\ out.response.ncols = 1
           /\ out.sided = pre.sided
           /\ out.is_onesided_center = pre.is_onesided_center
           /\ out.octave_spacing = pre.octave_spacing
           /\ self = pre /\ ~alias
           /\ n >= 2 =>
                \A i \in 1..n :
                    /\ to_vrs_grms1_sum(pre, Rat(1, 2 * op.Q), GridStep(pre.frequency), pre.frequency[i])
                         = MilesSum(pre.frequency, pre.response.data, op.Q, pre.frequency[i])
                    /\ out.response.data[i]
                         = RSqrt(MilesSum(pre.frequency, pre.response.data, op.Q, pre.frequency[i]))

\* to_vrs(1) of the PSD [2, 1] on the grid [0, 1] returned the value 2 at
\* fn = 1, where the Miles sum is 1*2*1 + 2*1*1 = 4
C15_Witness ==
    /\ op.name = "to_vrs" /\ op.Q = 1
    /\ pre.frequency = <<R(0), R(1)>> /\ pre.response.data = <<R(2), R(1)>>
    /\ err = ""
    /\ MilesSum(pre.frequency, pre.response.data, op.Q, R(1)) = R(4)
    /\ out.response.data[2] = R(2)

\* C16: to_sdof_vrs_response(Q, fn), Q > 0, fn > 0, of a PSD with at least
\* one bin, on every grid (also one whose first frequency is 0), returns a
\* VibrationResponseSpectra whose first response bin equals the PSD's first
\* density bin, tagged sided = 1, is_onesided_center = false,
\* octave_spacing = 0
C16_SdofFirstBin ==
    ( /\ op.name = "to_sdof_vrs_response" /\ op.Q > 0 /\ op.fn > 0
      /\ pre.kind \in PSDKinds
      /\ pre.response.ndim = 2 /\ pre.response.ncols = 1
      /\ Rows(pre.response) = Len(pre.frequency) /\ Rows(pre.response) >= 1 )
    => ( /\ err = ""
         /\ out.kind = "VibrationResponseSpectra"
         /\ out.response.data[1] = pre.response.data[1]
         /\ out.sided = 1 /\ ~out.is_onesided_center /\ out.octave_spacing = 0 )

\* the calls so far were conversions of the receiver between its one-sided
\* and two-sided forms
OnlySidedConversions ==
    /\ hist # <<>>
    /\ \A i \in 1..Len(hist) : hist[i] \in {"to_onesided", "to_twosided"}

\* C17: starting from a two-sided PSD with n >= 2 bins on the grid k*df and
\* octave_spacing 0, after any sequence of to_onesided and to_twosided calls
\* on it the properties fsampling and df have the values they had at the
\* start
C17_SamplingInvariant ==
    ( /\ ValidPSD(orig) /\ orig.sided = 2 /\ Len(orig.frequency) >= 2
      /\ self.kind \in PSDKinds
      /\ OnlySidedConversions )
    => ( /\ PSD_df(self) = PSD_df(orig)
         /\ PSD_fsampling(self) = PSD_fsampling(orig) )

\* the five fields of an entity that a conversion may assign
SameFields(a, b) ==
    /\ a.frequency = b.frequency
    /\ a.response = b.response
    /\ a.sided = b.sided
    /\ a.is_onesided_center = b.is_onesided_center
    /\ a.octave_spacing = b.octave_spacing

\* C18: when an in-place conversion (PSD to_onesided, to_twosided, resample
\* with inplace = True, or FourierTransform.to_onesided) raises, the
\* receiver's frequency, response, sided, is_onesided_center and
\* octave_spacing are what they were before the call
C18_AbortLeavesReceiver ==
    ( /\ op.name \in {"to_onesided", "to_twosided", "resample"}
      /\ op.inplace \/ pre.kind \in FTKinds
      /\ err # "" )
    => SameFields(self, pre)

\* the in-place to_twosided of a one-sided PSD with one bin raised IndexError
\* (in self.df) and the PSD is still the one-sided one-bin PSD
C18_Witness ==
    /\ op.name = "to_twosided" /\ op.inplace
    /\ pre.kind \in PSDKinds /\ pre.sided = 1 /\ pre.octave_spacing = 0
    /\ Len(pre.frequency) = 1
    /\ err = "IndexError"
    /\ SameFields(self, pre)

\* C19: to_onesided on a PSD or FourierTransform tagged sided = 1, and
\* to_twosided on a PSD tagged sided = 2 with octave_spacing 0, change no
\* field of the entity, whatever the length of its arrays, and to_onesided
\* raises nothing; so a second to_onesided (to_twosided) leaves the state
\* the first one made
C19_Idempotent ==
    /\ ( /\ op.name = "to_onesided"
         /\ pre.kind \in PSDKinds \cup FTKinds
         /\ pre.sided = 1 )
       => (err = "" /\ alias /\ SameFields(self, pre) /\ SameFields(out, pre))
    /\ ( /\ op.name = "to_twosided"
         /\ pre.kind \in PSDKinds
         /\ pre.sided = 2 /\ pre.octave_spacing = 0 )
       => ( /\ SameFields(self, pre)
            /\ err = "" => (alias /\ SameFields(out, pre)) )

\* a two-sided PSD of 3 bins was converted in place by to_onesided twice:
\* the second call found it one-sided with 2 bins and left it so
C19_Witness ==
    /\ hist = <<"to_onesided", "to_onesided">>
    /\ op.inplace
    /\ orig.kind \in PSDKinds /\ orig.sided = 2 /\ Len(orig.frequency) = 3
    /\ pre.sided = 1 /\ Len(pre.frequency) = 2
    /\ err = "" /\ self = pre

\* C20: to_onesided, to_twosided or resample with inplace = False, called
\* on any PSD, leaves every field of the receiver unchanged and returns an
\* entity that is not the receiver itself
C20_CopyIsNotReceiver ==
    ( /\ op.name \in {"to_onesided", "to_twosided", "resample"}
      /\ ~op.inplace
      /\ pre.kind \in PSDKinds
      /\ err = "" )
    => (SameFields(self, pre) /\ ~alias)

\* what the conversion named name does to the receiver e: the result of the
\* call with the given inplace
Conversion(name, e, frequency, inplace) ==
    IF name = "to_onesided" THEN PSD_to_onesided(e, inplace)
    ELSE IF name = "to_twosided" THEN PSD_to_twosided(e, inplace)
    ELSE PSD_resample(e, frequency, inplace)

\* C21: for every PSD and each conversion among to_onesided, to_twosided and
\* resample, when the call succeeds with inplace = False and with
\* inplace = True on an equal entity, the entity the first returns has the
\* frequency, response (values and shape), sided, is_onesided_center and
\* octave_spacing the receiver has after the second
C21_CopyEqualsInPlace ==
    ( /\ op.name \in {"to_onesided", "to_twosided", "resample"}
      /\ pre.kind \in PSDKinds )
    => \E copy \in {Conversion(op.name, pre, op.frequency, FALSE)} :
       \E inpl \in {Conversion(op.name, pre, op.frequency, TRUE)} :
           (copy.err = "" /\ inpl.err = "") => SameFields(copy.out, inpl.self)

\* C22: the entity returned by to_sdof_transmissibility, to_sdof_vrs_response
\* or to_vrs does not hold the source PSD's frequency array, and dividing the
\* returned entity's frequency in place leaves the source PSD's frequency
\* values as they were
C22_FrequencyNotShared ==
    /\ (op.name \in Derivations /\ err = "") => ~shared
    /\ (op.name = "frequency /=") => self.frequency = pre.frequency

\* C23: for a signal with sampling rate fs = 1/dt and every Welch segment
\* length nperseg >= 2, odd or even (the PSD then has at least 2 bins), the
\* PSD returned by to_psd_welch(sided = 1) has is_onesided_center true
\* exactly when its last frequency bin is fs/2, and its fsampling is fs
C23_WelchSamplingRate ==
    ( /\ op.name = "to_psd_welch" /\ op.sided = 1
      /\ err = ""
      /\ Len(out.frequency) >= 2 )
    => \E fs \in {RDiv(R(1), RSub(pre.time[2], pre.time[1]))} :
           /\ out.is_onesided_center <=> (out.frequency[Len(out.frequency)] = RDiv(fs, R(2)))
           /\ PSD_fsampling(out) = [err |-> "", fsampling |-> fs]
====
